---- MODULE Spec2Model ----
(***************************************************************************)
(* A model of app.py (the Hecker / AcademicAi Flask application):          *)
(*   - the text pipeline: sanitize_response, format_mathematical_notation, *)
(*     generate_response_with_context;                                     *)
(*   - ConversationContext and the process-wide conversation_context;      *)
(*   - the three HTTP endpoints, /api/query handled by concurrent threads; *)
(*   - the keep_alive background loop.                                     *)
(*                                                                         *)
(* A text (a Python str) is a sequence of characters; a character is a     *)
(* one-character string, and a character outside ASCII is written by its   *)
(* code point ("U+00D7").                                                  *)
(***************************************************************************)
EXTENDS Integers, Sequences, FiniteSets, TLC

\* ------------------------------------------------------------------------
\* Characters and the str methods the code uses
\* ------------------------------------------------------------------------

NL == "\n"

\* What str.strip() removes and what \s matches.
Whitespace == {" ", "\n", "\t", "\r"}

\* What \d matches.
Digits == {"0", "1", "2", "3", "4", "5", "6", "7", "8", "9"}

LowerLetters ==
    <<"a", "b", "c", "d", "e", "f", "g", "h", "i", "j", "k", "l", "m",
      "n", "o", "p", "q", "r", "s", "t", "u", "v", "w", "x", "y", "z">>

UpperLetters ==
    <<"A", "B", "C", "D", "E", "F", "G", "H", "I", "J", "K", "L", "M",
      "N", "O", "P", "Q", "R", "S", "T", "U", "V", "W", "X", "Y", "Z">>

\* What [a-zA-Z] matches.
Letters == {LowerLetters[i] : i \in 1..26} \cup {UpperLetters[i] : i \in 1..26}

\* What [0-9a-zA-Z] matches.
AlphaNum == Letters \cup Digits

\* The least i in lo..hi with P[i], written for a set S of such i:
\* First(lo, hi, S) is the least element of S \cap lo..hi, and 0 when there is
\* none.
First(lo, hi, S) ==
    IF \E i \in lo..hi : i \in S
    THEN CHOOSE i \in lo..hi : i \in S /\ \A j \in lo..(i - 1) : j \notin S
    ELSE 0

\* s[i .. i+Len(p)-1] = p
StartsAt(s, i, p) ==
    /\ i >= 1
    /\ i + Len(p) - 1 <= Len(s)
    /\ \A k \in 1..Len(p) : s[i + k - 1] = p[k]

\* The first index >= from at which p occurs in s, or 0.
FindFrom(s, p, from) ==
    LET hi == Len(s) - Len(p) + 1
    IN  IF \E i \in from..hi : StartsAt(s, i, p)
        THEN CHOOSE i \in from..hi :
                 StartsAt(s, i, p) /\ \A j \in from..(i - 1) : ~StartsAt(s, j, p)
        ELSE 0

\* `p in s`
Contains(s, p) == \E i \in 1..(Len(s) - Len(p) + 1) : StartsAt(s, i, p)

\* The first index >= from whose character is not in C, Len(s)+1 if none.
FirstNotIn(s, from, C) ==
    IF \E j \in from..Len(s) : s[j] \notin C
    THEN CHOOSE j \in from..Len(s) :
             s[j] \notin C /\ \A k \in from..(j - 1) : s[k] \in C
    ELSE Len(s) + 1

\* The first index >= from whose character is in C, Len(s)+1 if none.
FirstIn(s, from, C) ==
    IF \E j \in from..Len(s) : s[j] \in C
    THEN CHOOSE j \in from..Len(s) :
             s[j] \in C /\ \A k \in from..(j - 1) : s[k] \notin C
    ELSE Len(s) + 1

\* The last index whose character is not in C, 0 if none.
LastNotIn(s, C) ==
    IF \E j \in 1..Len(s) : s[j] \notin C
    THEN CHOOSE j \in 1..Len(s) :
             s[j] \notin C /\ \A k \in (j + 1)..Len(s) : s[k] \in C
    ELSE 0

\* str.strip()
Strip(s) ==
    LET a == FirstNotIn(s, 1, Whitespace)
        b == LastNotIn(s, Whitespace)
    IN  IF a > b THEN <<>> ELSE SubSeq(s, a, b)

\* str.lower() of one character
LowerChar(c) ==
    IF \E i \in 1..26 : UpperLetters[i] = c
    THEN LowerLetters[CHOOSE i \in 1..26 : UpperLetters[i] = c]
    ELSE c

\* str.lower()
Lower(s) == [i \in 1..Len(s) |-> LowerChar(s[i])]

\* str.replace(old, new) from index `from` on: every occurrence of old, found
\* left to right without overlap, becomes new.
RECURSIVE ReplaceFrom(_, _, _, _)
ReplaceFrom(s, old, new, from) ==
    LET i == FindFrom(s, old, from)
    IN  IF i = 0
        THEN SubSeq(s, from, Len(s))
        ELSE SubSeq(s, from, i - 1) \o new \o ReplaceFrom(s, old, new, i + Len(old))

\* str.replace(old, new), and re.sub of a pattern that is one literal text.
Replace(s, old, new) == ReplaceFrom(s, old, new, 1)

\* str.replace(old, new, 1)
ReplaceFirst(s, old, new) ==
    LET i == FindFrom(s, old, 1)
    IN  IF i = 0
        THEN s
        ELSE SubSeq(s, 1, i - 1) \o new \o SubSeq(s, i + Len(old), Len(s))

\* str.split(sep) from index `from` on.
RECURSIVE SplitFrom(_, _, _)
SplitFrom(s, sep, from) ==
    LET i == FindFrom(s, sep, from)
    IN  IF i = 0
        THEN <<SubSeq(s, from, Len(s))>>
        ELSE <<SubSeq(s, from, i - 1)>> \o SplitFrom(s, sep, i + Len(sep))

\* sep.join(parts)
RECURSIVE Join(_, _)
Join(parts, sep) ==
    IF parts = <<>> THEN <<>>
    ELSE IF Len(parts) = 1 THEN parts[1]
    ELSE parts[1] \o sep \o Join(Tail(parts), sep)

\* ------------------------------------------------------------------------
\* The regular expressions of the code. Each XxxEnd(s, i) is the index of
\* the last character of the match of the pattern that starts at i, and 0
\* when the pattern does not match at i.
\* ------------------------------------------------------------------------

\* ^ under re.MULTILINE
LineStart(s, i) == i = 1 \/ (i > 1 /\ i <= Len(s) + 1 /\ s[i - 1] = NL)

\* \n{3,}
NewlinesEnd(s, i) ==
    IF StartsAt(s, i, <<NL, NL, NL>>) THEN FirstNotIn(s, i, {NL}) - 1 ELSE 0

\* ^(Step\s*\d+:)
StepEnd(s, i) ==
    IF ~(LineStart(s, i) /\ StartsAt(s, i, <<"S", "t", "e", "p">>)) THEN 0
    ELSE LET j == FirstNotIn(s, i + 4, Whitespace)
             k == FirstNotIn(s, j, Digits)
         IN  IF k > j /\ k <= Len(s) /\ s[k] = ":" THEN k ELSE 0

\* ^(Conclusion:)
ConclusionEnd(s, i) ==
    IF LineStart(s, i)
         /\ StartsAt(s, i, <<"C", "o", "n", "c", "l", "u", "s", "i", "o", "n", ":">>)
    THEN i + 10 ELSE 0

\* \$\$(.*?)\$\$ under re.DOTALL
BlockMathEnd(s, i) ==
    IF ~StartsAt(s, i, <<"$", "$">>) THEN 0
    ELSE LET j == FindFrom(s, <<"$", "$">>, i + 2)
         IN  IF j = 0 THEN 0 ELSE j + 1

\* \$(.*?)\$  (the dot matches no line break)
InlineMathEnd(s, i) ==
    IF ~StartsAt(s, i, <<"$">>) THEN 0
    ELSE LET j == FirstIn(s, i + 1, {"$", NL})
         IN  IF j <= Len(s) /\ s[j] = "$" THEN j ELSE 0

\* ([a-zA-Z]_[0-9a-zA-Z]|[a-zA-Z])
SymbolEnd(s, i) ==
    IF ~(i >= 1 /\ i <= Len(s) /\ s[i] \in Letters) THEN 0
    ELSE IF i + 2 <= Len(s) /\ s[i + 1] = "_" /\ s[i + 2] \in AlphaNum THEN i + 2
    ELSE i

\* The pattern named pat, matched at i.
MatchEnd(pat, s, i) ==
    CASE pat = "newlines"    -> NewlinesEnd(s, i)
      [] pat = "step"        -> StepEnd(s, i)
      [] pat = "conclusion"  -> ConclusionEnd(s, i)
      [] pat = "block_math"  -> BlockMathEnd(s, i)
      [] pat = "inline_math" -> InlineMathEnd(s, i)
      [] pat = "symbol"      -> SymbolEnd(s, i)

\* The first index >= from at which the pattern matches, or 0.
NextMatch(s, from, pat) ==
    IF \E i \in from..Len(s) : MatchEnd(pat, s, i) > 0
    THEN CHOOSE i \in from..Len(s) :
             MatchEnd(pat, s, i) > 0 /\ \A j \in from..(i - 1) : MatchEnd(pat, s, j) = 0
    ELSE 0

\* re.finditer: the matches <<first, last>> of the pattern in s, left to
\* right, none overlapping another.
RECURSIVE FindIter(_, _, _)
FindIter(s, from, pat) ==
    LET i == NextMatch(s, from, pat)
    IN  IF i = 0 THEN <<>>
        ELSE LET e == MatchEnd(pat, s, i)
             IN  <<(<<i, e>>)>> \o FindIter(s, e + 1, pat)

\* The replacement templates sanitize_response gives re.sub, applied to the
\* match s[i..e].
Template(pat, s, i, e) ==
    CASE pat = "newlines"    -> <<NL, NL>>
      [] pat = "step"        -> <<"*", "*">> \o SubSeq(s, i, e) \o <<"*", "*">>
      [] pat = "conclusion"  -> <<"*", "*">> \o SubSeq(s, i, e) \o <<"*", "*">>
      [] pat = "block_math"  ->
             <<"*", "*", "E", "q", "u", "a", "t", "i", "o", "n", ":", "*", "*", " ">>
                 \o SubSeq(s, i + 2, e - 2)
      [] pat = "inline_math" -> <<"*">> \o SubSeq(s, i + 1, e - 1) \o <<"*">>

\* re.sub(pattern, template, s) from index `from` on.
RECURSIVE ReSubFrom(_, _, _)
ReSubFrom(s, from, pat) ==
    LET i == NextMatch(s, from, pat)
    IN  IF i = 0 THEN SubSeq(s, from, Len(s))
        ELSE LET e == MatchEnd(pat, s, i)
             IN  SubSeq(s, from, i - 1) \o Template(pat, s, i, e)
                     \o ReSubFrom(s, e + 1, pat)

ReSub(pat, s) == ReSubFrom(s, 1, pat)

\* ------------------------------------------------------------------------
\* sanitize_response (TextSanitizer)
\* ------------------------------------------------------------------------

\* A variant of the chain with the ampersand replaced last instead of first:
\* it escapes the ampersands of the entities the earlier calls introduced.
EscapeHtmlAmpersandLast(text) ==
    LET t1 == Replace(text, <<"<">>, <<"&", "l", "t", ";">>)
        t2 == Replace(t1, <<">">>, <<"&", "g", "t", ";">>)
        t3 == Replace(t2, <<"\"">>, <<"&", "q", "u", "o", "t", ";">>)
        t4 == Replace(t3, <<"'">>, <<"&", "#", "0", "3", "9", ";">>)
    IN  Replace(t4, <<"&">>, <<"&", "a", "m", "p", ";">>)

\* The chain of str.replace calls: each runs over the whole result of the
\* one before it.
EscapeHtml(text) ==
    LET t1 == Replace(text, <<"&">>, <<"&", "a", "m", "p", ";">>)
        t2 == Replace(t1, <<"<">>, <<"&", "l", "t", ";">>)
        t3 == Replace(t2, <<">">>, <<"&", "g", "t", ";">>)
        t4 == Replace(t3, <<"\"">>, <<"&", "q", "u", "o", "t", ";">>)
    IN  Replace(t4, <<"'">>, <<"&", "#", "0", "3", "9", ";">>)

\* The text the escapes are applied to: the line breaks, the step and
\* conclusion markers and the dollar-delimited spans rewritten, then strip().
StructuralCleanup(text) ==
    LET t1 == ReSub("newlines", text)
        t2 == ReSub("step", t1)
        t3 == ReSub("conclusion", t2)
        t4 == ReSub("block_math", t3)
        t5 == ReSub("inline_math", t4)
    IN  Strip(t5)

sanitize_response(text) == EscapeHtml(StructuralCleanup(text))

\* ------------------------------------------------------------------------
\* format_mathematical_notation (MathNotationFormatter)
\* ------------------------------------------------------------------------

\* The multiplication sign that replaces an asterisk.
TimesSign == "U+00D7"

EquationOpen ==
    <<"<", "d", "i", "v", " ", "c", "l", "a", "s", "s", "=", "\"", "e",
      "q", "u", "a", "t", "i", "o", "n", "\"", ">">>

MathOpen ==
    <<"<", "s", "p", "a", "n", " ", "c", "l", "a", "s", "s", "=", "\"",
      "m", "a", "t", "h", "-", "e", "x", "p", "r", "e", "s", "s", "i", "o",
      "n", "\"", ">">>

StepOpen ==
    <<"<", "d", "i", "v", " ", "c", "l", "a", "s", "s", "=", "\"", "s",
      "o", "l", "u", "t", "i", "o", "n", "-", "s", "t", "e", "p", "\"", ">">>

SymbolOpen ==
    <<"<", "s", "p", "a", "n", " ", "c", "l", "a", "s", "s", "=", "\"",
      "s", "y", "m", "b", "o", "l", "\"", ">">>

DivClose == <<"<", "/", "d", "i", "v", ">">>

SpanClose == <<"<", "/", "s", "p", "a", "n", ">">>

\* The words the symbol loop skips.
StopWords ==
    {<<"a">>, <<"a", "n">>, <<"t", "h", "e">>, <<"i", "n">>, <<"o", "n">>,
     <<"a", "t">>, <<"t", "o">>, <<"f", "o", "r">>}

\* One turn of a `for m in re.finditer(...)` loop: what the loop body makes
\* of text for the match whose whole is g0.
LoopBody(pat, text, g0) ==
    CASE pat = "block_math"  ->
             Replace(text, g0,
                     EquationOpen \o Strip(SubSeq(g0, 3, Len(g0) - 2)) \o DivClose)
      [] pat = "inline_math" ->
             Replace(text, g0,
                     MathOpen \o Strip(SubSeq(g0, 2, Len(g0) - 1)) \o SpanClose)
      [] pat = "symbol"      ->
             IF g0 \in StopWords THEN text
             ELSE ReplaceFirst(text, g0, SymbolOpen \o g0 \o SpanClose)

\* The loop over the matches found in src (the text as it was when
\* re.finditer was called), each turn rewriting the current text.
RECURSIVE ForEachMatch(_, _, _, _)
ForEachMatch(pat, text, src, matches) ==
    IF matches = <<>> THEN text
    ELSE LET m    == Head(matches)
             next == LoopBody(pat, text, SubSeq(src, m[1], m[2]))
         IN  \* the turn's text is computed before the next turn starts
             IF next = text
             THEN ForEachMatch(pat, text, src, Tail(matches))
             ELSE ForEachMatch(pat, next, src, Tail(matches))

RewriteMatches(pat, text) == ForEachMatch(pat, text, text, FindIter(text, 1, pat))

\* The steps: the text split at blank lines, each non-blank part wrapped.
FormatSteps(text) ==
    LET steps == SplitFrom(text, <<NL, NL>>, 1)
        kept  == SelectSeq(steps, LAMBDA step : Strip(step) # <<>>)
    IN  Join([i \in 1..Len(kept) |-> StepOpen \o Strip(kept[i]) \o DivClose], <<NL>>)

format_mathematical_notation(text) ==
    LET t1 == Replace(text, <<"*", "*">>, <<"^">>)
        t2 == Replace(t1, <<"*">>, <<TimesSign>>)
        t3 == RewriteMatches("block_math", t2)
        t4 == RewriteMatches("inline_math", t3)
        t5 == FormatSteps(t4)
    IN  RewriteMatches("symbol", t5)

\* ------------------------------------------------------------------------
\* ConversationContext
\* ------------------------------------------------------------------------

\* Python's None
None == "None"

\* The default of the max_history parameter of ConversationContext.
DefaultMaxHistory == 5

\* The dict of detect_topic, in the order it lists (and so iterates) its
\* items.
topics ==
    <<
       [name |-> "mathematics",
        words |-> <<<<"m", "a", "t", "h">>,
                    <<"a", "l", "g", "e", "b", "r", "a">>,
                    <<"g", "e", "o", "m", "e", "t", "r", "y">>,
                    <<"c", "a", "l", "c", "u", "l", "u", "s">>,
                    <<"t", "r", "i", "g", "o", "n", "o", "m", "e", "t", "r", "y">>>>],
       [name |-> "science",
        words |-> <<<<"p", "h", "y", "s", "i", "c", "s">>,
                    <<"c", "h", "e", "m", "i", "s", "t", "r", "y">>,
                    <<"b", "i", "o", "l", "o", "g", "y">>,
                    <<"s", "c", "i", "e", "n", "c", "e">>>>],
       [name |-> "language",
        words |-> <<<<"e", "n", "g", "l", "i", "s", "h">>,
                    <<"g", "r", "a", "m", "m", "a", "r">>,
                    <<"w", "r", "i", "t", "i", "n", "g">>,
                    <<"l", "i", "t", "e", "r", "a", "t", "u", "r", "e">>>>],
       [name |-> "history",
        words |-> <<<<"h", "i", "s", "t", "o", "r", "y">>,
                    <<"h", "i", "s", "t", "o", "r", "i", "c", "a", "l">>,
                    <<"c", "i", "v", "i", "l", "i", "z", "a", "t", "i", "o", "n">>,
                    <<"e", "r", "a">>>>],
       [name |-> "technology",
        words |-> <<<<"c", "o", "m", "p", "u", "t", "e", "r">>,
                    <<"p", "r", "o", "g", "r", "a", "m", "m", "i", "n", "g">>,
                    <<"t", "e", "c", "h">>,
                    <<"c", "o", "d", "i", "n", "g">>>>]
    >>

\* The dict of adjust_difficulty, in the order it lists its items.
complexity_indicators ==
    <<
       [name |-> "advanced",
        words |-> <<<<"p", "r", "o", "v", "e">>,
                    <<"d", "e", "r", "i", "v", "e">>,
                    <<"c", "o", "m", "p", "l", "e", "x">>,
                    <<"a", "d", "v", "a", "n", "c", "e", "d">>,
                    <<"t", "h", "e", "o", "r", "e", "t", "i", "c", "a", "l">>>>],
       [name |-> "beginner",
        words |-> <<<<"e", "x", "p", "l", "a", "i", "n">>,
                    <<"w", "h", "a", "t", " ", "i", "s">>,
                    <<"b", "a", "s", "i", "c">>,
                    <<"s", "i", "m", "p", "l", "e">>,
                    <<"i", "n", "t", "r", "o", "d", "u", "c", "t", "i", "o", "n">>>>]
    >>

\* any(word in query.lower() for word in words)
AnyIn(words, query) ==
    LET lowered == Lower(query)
    IN  \E k \in 1..Len(words) : Contains(lowered, words[k])

\* `for name, words in table.items(): if any(...)`: the index of the item at
\* which the loop leaves, trying the items from i on in order; 0 when the
\* loop runs to its end.
RECURSIVE LoopExit(_, _, _)
LoopExit(table, query, i) ==
    IF i > Len(table) THEN 0
    ELSE IF AnyIn(table[i].words, query) THEN i
    ELSE LoopExit(table, query, i + 1)

\* A variant of the length check with > for >=.
AtCapacityOffByOne(hist, max) == Len(hist) > max

\* add_interaction, the three steps a thread takes one after the other.
\* len(self.history) >= self.max_history
AtCapacity(hist, max) == Len(hist) >= max

\* self.history.pop(0); on an empty list pop raises IndexError.
PopRaises(hist) == hist = <<>>

PopOldest(hist) == Tail(hist)

\* A variant of the append that stores the pair twice.
AppendTwice(hist, user_query, ai_response) ==
    LET pair == [user_query |-> user_query, ai_response |-> ai_response]
    IN  Append(Append(hist, pair), pair)

\* self.history.append({'user_query': ..., 'ai_response': ...})
AppendInteraction(hist, user_query, ai_response) ==
    Append(hist, [user_query |-> user_query, ai_response |-> ai_response])

\* add_interaction run without interruption. It is called only where the pop
\* cannot raise (max >= 1).
add_interaction(hist, max, user_query, ai_response) ==
    AppendInteraction(IF AtCapacity(hist, max) THEN PopOldest(hist) ELSE hist,
                      user_query, ai_response)

\* A variant of detect_topic that assigns current_topic whether or not a
\* topic matched.
DetectTopicAlwaysAssigns(topic, query) ==
    LET i == LoopExit(topics, query, 1)
        found == IF i = 0 THEN None ELSE topics[i].name
    IN  [ret |-> found, current_topic |-> found]

\* detect_topic: what it returns and what current_topic is afterwards.
detect_topic(topic, query) ==
    LET i == LoopExit(topics, query, 1)
    IN  IF i = 0
        THEN [ret |-> None, current_topic |-> topic]
        ELSE [ret |-> topics[i].name, current_topic |-> topics[i].name]

\* A variant of adjust_difficulty without the `break`: the loop goes on and
\* the last matching level is the one that stays.
AdjustWithoutBreak(level, query) ==
    IF AnyIn(complexity_indicators[2].words, query) THEN complexity_indicators[2].name
    ELSE IF AnyIn(complexity_indicators[1].words, query) THEN complexity_indicators[1].name
    ELSE level

\* adjust_difficulty: difficulty_level afterwards.
adjust_difficulty(level, query) ==
    LET i == LoopExit(complexity_indicators, query, 1)
    IN  IF i = 0 THEN level ELSE complexity_indicators[i].name

\* ------------------------------------------------------------------------
\* generate_emoji and generate_response_with_context (ResponseGenerator)
\* ------------------------------------------------------------------------

\* The list of generate_emoji, each emoji one code point.
emojis ==
    <<"U+1F60A", "U+1F31F", "U+1F44D", "U+1F680", "U+1F914", "U+1F4A1",
      "U+1F4DA", "U+1F393", "U+1F9E0", "U+2728", "U+1F308", "U+1F44F",
      "U+1F913", "U+1F4AA", "U+1F31E">>

\* random.choice(emojis), pick being the index drawn.
generate_emoji(pick) == emojis[pick]

\* The words that select the pre-written passage.
TriggerWords ==
    <<<<"d", "i", "m", "e", "n", "s", "i", "o", "n">>,
      <<"d", "i", "m", "e", "n", "s", "i", "o", "n", "a", "l", " ", "a", "n", "a", "l", "y", "s", "i", "s">>,
      <<"v", "i", "s", "c", "o", "s", "i", "t", "y">>,
      <<"p", "r", "o", "v", "e">>,
      <<"d", "e", "r", "i", "v", "a", "t", "i", "o", "n">>>>

\* A variant of the trigger test without .lower().
HasTriggerCaseSensitive(query) ==
    \E k \in 1..Len(TriggerWords) : Contains(query, TriggerWords[k])

HasTrigger(query) == AnyIn(TriggerWords, query)

\* The pre-written passage, abridged to its first step heading, one of its
\* bullet lines and the blank line between two of its paragraphs.
CannedPassage ==
    <<"*", "*", "S", "t", "e", "p", " ", "1", ":", "*", "*", NL, NL, "*",
      " ", "[", "L", "]">>

\* The message returned when the model client fails, up to the emoji.
Apology ==
    <<"I", "'", "m", " ", "s", "o", "r", "r", "y", ",", " ", "I", " ", "e",
      "n", "c", "o", "u", "n", "t", "e", "r", "e", "d", " ", "a", "n", " ",
      "e", "r", "r", "o", "r", " ", "p", "r", "o", "c", "e", "s", "s", "i",
      "n", "g", " ", "y", "o", "u", "r", " ", "q", "u", "e", "r", "y", ".",
      " ">>

\* The transformations the code names, applied to a text.
ApplyStage(stage, text) ==
    CASE stage = "format_mathematical_notation" -> format_mathematical_notation(text)
      [] stage = "sanitize_response"            -> sanitize_response(text)

\* f2(f1(text)) for stages <<f1, f2>>.
RECURSIVE RunStages(_, _)
RunStages(stages, text) ==
    IF stages = <<>> THEN text
    ELSE RunStages(Tail(stages), ApplyStage(Head(stages), text))

\* The transformations each return statement applies to the text it returns.
CannedStages == <<"format_mathematical_notation">>

\* A variant of the model path with the two calls in the other order.
SanitizeThenFormat == <<"sanitize_response", "format_mathematical_notation">>

ModelStages == <<"format_mathematical_notation", "sanitize_response">>

\* A variant of the fallback that sanitizes the apology.
SanitizedFallback == <<"sanitize_response">>

FallbackStages == <<>>

\* The text a return statement returns, as the transformations it applies
\* and the text it applies them to.
Applied(stages, raw) == [stages |-> stages, raw |-> raw]

\* The characters of such a text.
Text(x) == RunStages(x.stages, x.raw)

\* What the model client does when called: it returns a response whose text
\* is readable (kind "text"), generate_content raises (kind "raises"), or
\* it returns a response whose .text raises (kind "text_raises").
ClientFails(client) == client.kind \in {"raises", "text_raises"}

\* generate_response_with_context(query), given what the model client does
\* if it is called and the index random.choice draws if it is called:
\* the text returned, the return statement reached and the number of calls
\* of the model client.
generate_response_with_context(query, client, pick) ==
    IF HasTrigger(query)
    THEN [text |-> Applied(CannedStages, CannedPassage),
          path |-> "canned",
          model_calls |-> 0]
    ELSE IF ~ClientFails(client)
    THEN [text |-> Applied(ModelStages, client.text),
          path |-> "model",
          model_calls |-> 1]
    ELSE [text |-> Applied(FallbackStages, Apology \o <<generate_emoji(pick)>>),
          path |-> "fallback",
          model_calls |-> 1]

\* ------------------------------------------------------------------------
\* State
\* ------------------------------------------------------------------------

VARIABLES
    \* a ConversationContext: conversation_context in the server, the object
    \* under test in the specifications that call its methods directly
    history, max_history, current_topic, difficulty_level,
    \* the threads that serve HTTP requests: where each is, and the locals of
    \* query() (query_text, response_text) and the reply it is about to send
    pc, query_text, response_text, gen, reply,
    \* the number of requests received so far
    served,
    \* the keep_alive thread: where it is, and the index of `url` in urls
    kpc, kurl,
    \* direct calls of a function or method: the last call, and the
    \* arguments of the add_interaction calls so far
    call, calls

context == <<history, max_history, current_topic, difficulty_level>>

workers == <<pc, query_text, response_text, gen, reply, served>>

keeper == <<kpc, kurl>>

harness == <<call, calls>>

vars == <<context, workers, keeper, harness>>

\* ------------------------------------------------------------------------
\* Bounds and inputs
\* ------------------------------------------------------------------------

\* The threads of the server that serve requests at the same time.
Threads == {"t1", "t2"}

\* The number of requests the server receives in a run.
MaxRequests == 6

\* The draws of random.choice(emojis) that occur in the server: the indices
\* 1..MaxDraw.
MaxDraw == 1

Draws == 1..(IF MaxDraw < Len(emojis) THEN MaxDraw ELSE Len(emojis))

\* The queries sent one request at a time: with a trigger word (as a word,
\* in capitals, inside a longer word, beside markup) and without one.
AllQueries ==
    {<<"p", "r", "o", "v", "e", " ", "t", "h", "e", " ", "d", "e", "r", "i", "v", "a", "t", "i", "o", "n">>,
     <<"W", "h", "a", "t", " ", "i", "s", " ", "V", "I", "S", "C", "O", "S", "I", "T", "Y", "?">>,
     <<"3", "-", "d", "i", "m", "e", "n", "s", "i", "o", "n", "a", "l", " ", "<", "b", ">">>,
     <<"i", "m", "p", "r", "o", "v", "e">>,
     <<"P", "R", "O", "V", "E", " ", "i", "t">>,
     <<"h", "i">>}

\* The queries the clients of the concurrent server send: one with a trigger
\* word and one without.
ClientQueries ==
    {<<"P", "R", "O", "V", "E", " ", "i", "t">>,
     <<"h", "i">>}

\* The texts the model returns.
AllTexts ==
    {<<"a", "<", "b">>,
     <<"$", "x", "$", " ", "&", " ", "'", "y", "'">>}

\* The texts the model returns to the concurrent server.
ModelTexts == {<<"a", "<", "b">>}

\* What the model client can do when it is called.
Behaviours(texts) ==
    {[kind |-> "text", text |-> x] : x \in texts}
        \cup {[kind |-> "raises"], [kind |-> "text_raises"]}

ClientBehaviours == Behaviours(ModelTexts)

\* The bodies of the requests to /api/query: a JSON object with a text under
\* 'query', a body that is no JSON object (request.json is None or a list, so
\* data.get raises AttributeError), and an object whose 'query' is a number
\* (query.lower() raises AttributeError).
Bodies(queries) ==
    {[kind |-> "query", query |-> q] : q \in queries}
        \cup {[kind |-> "not_object"], [kind |-> "number"]}

RequestBodies == Bodies(ClientQueries)

\* A local that is not bound.
NoText == <<"<unbound>">>

NoResponse == Applied(<<>>, NoText)

NoGen == [path |-> "none", model_calls |-> 0]

NoReply == [status |-> 0]

NoCall == [op |-> "none", n |-> 0, arg |-> None, ret |-> None]

\* ------------------------------------------------------------------------
\* Initial states
\* ------------------------------------------------------------------------

\* ConversationContext.__init__
ContextInit(max) ==
    /\ history = <<>>
    /\ max_history = max
    /\ current_topic = None
    /\ difficulty_level = "intermediate"

WorkersInit ==
    /\ pc = [t \in Threads |-> "idle"]
    /\ query_text = [t \in Threads |-> NoText]
    /\ response_text = [t \in Threads |-> NoResponse]
    /\ gen = [t \in Threads |-> NoGen]
    /\ reply = [t \in Threads |-> NoReply]
    /\ served = 0

\* The keep_alive thread is started at import, before the first request: it
\* is about to call requests.get on the first URL.
KeeperInit ==
    /\ kpc = "get"
    /\ kurl = 1

HarnessInit ==
    /\ call = NoCall
    /\ calls = <<>>

\* conversation_context = ConversationContext()
Init ==
    /\ ContextInit(DefaultMaxHistory)
    /\ WorkersInit
    /\ KeeperInit
    /\ HarnessInit

\* ------------------------------------------------------------------------
\* The HTTP endpoints. A thread serves one request at a time; each action is
\* one step of its handler that no other thread can interrupt.
\* ------------------------------------------------------------------------

\* What generate_response_with_context did besides returning the text.
Trace(r) == [path |-> r.path, model_calls |-> r.model_calls]

Replies(endpoint, status, success, response, error) ==
    [endpoint |-> endpoint, status |-> status, success |-> success,
     response |-> response, error |-> error]

\* jsonify({'success': True, 'response': response_text})
QueryOk(text) == Replies("/api/query", 200, TRUE, text, None)

\* jsonify({'success': False, 'error': str(e)}), 500
QueryError(e) == Replies("/api/query", 500, FALSE, None, e)

Finish(t, r) ==
    /\ pc' = [pc EXCEPT ![t] = "reply"]
    /\ reply' = [reply EXCEPT ![t] = r]

\* home(): the landing page; it reads the clock and nothing else.
Home(t) ==
    /\ pc[t] = "idle"
    /\ served < MaxRequests
    /\ served' = served + 1
    /\ Finish(t, Replies("/", 200, None, "index.html", None))
    /\ UNCHANGED <<context, query_text, response_text, gen, keeper, harness>>

\* generate_response(): chat.send_message(user_message) returns or raises;
\* either way the reply has status 200.
GenerateResponse(t, ok) ==
    /\ pc[t] = "idle"
    /\ served < MaxRequests
    /\ served' = served + 1
    /\ Finish(t, Replies("/generate_response", 200, None,
                         IF ok THEN "response.text"
                         ELSE "I'm experiencing some difficulties. Error: ...",
                         None))
    /\ UNCHANGED <<context, query_text, response_text, gen, keeper, harness>>

\* query(), from `data = request.json` to the point where
\* generate_response_with_context either returns the passage or has built
\* the prompt (which reads len(conversation_context.history)) and calls the
\* model client.
QueryReceive(t, body) ==
    /\ pc[t] = "idle"
    /\ served < MaxRequests
    /\ served' = served + 1
    /\ IF body.kind = "not_object"
       THEN /\ Finish(t, QueryError("AttributeError: no attribute 'get'"))
            /\ UNCHANGED <<query_text, response_text, gen>>
       ELSE IF body.kind = "number"
       THEN /\ Finish(t, QueryError("AttributeError: no attribute 'lower'"))
            /\ UNCHANGED <<query_text, response_text, gen>>
       ELSE LET q == body.query
            IN  /\ query_text' = [query_text EXCEPT ![t] = q]
                /\ IF HasTrigger(q)
                   THEN \E client \in ClientBehaviours, pick \in Draws :
                            /\ response_text' =
                                   [response_text EXCEPT ![t] =
                                       generate_response_with_context(q, client, pick).text]
                            /\ gen' = [gen EXCEPT ![t] =
                                           Trace(generate_response_with_context(q, client, pick))]
                            /\ pc' = [pc EXCEPT ![t] = "add_check"]
                   ELSE /\ pc' = [pc EXCEPT ![t] = "model"]
                        /\ UNCHANGED <<response_text, gen>>
                /\ UNCHANGED reply
    /\ UNCHANGED <<context, keeper, harness>>

\* model.generate_content(context_prompt) returns and response.text is read:
\* the formatted and sanitized text is returned to query().
ModelReturns(t, client) ==
    /\ pc[t] = "model"
    /\ ~ClientFails(client)
    /\ response_text' = [response_text EXCEPT ![t] =
                            generate_response_with_context(query_text[t], client, 1).text]
    /\ gen' = [gen EXCEPT ![t] =
                   Trace(generate_response_with_context(query_text[t], client, 1))]
    /\ pc' = [pc EXCEPT ![t] = "add_check"]
    /\ UNCHANGED <<context, query_text, reply, served, keeper, harness>>

\* model.generate_content raises, or reading response.text does: the except
\* clause returns the apology with random.choice(emojis).
ModelFails(t, client, pick) ==
    /\ pc[t] = "model"
    /\ ClientFails(client)
    /\ response_text' = [response_text EXCEPT ![t] =
                            generate_response_with_context(query_text[t], client, pick).text]
    /\ gen' = [gen EXCEPT ![t] =
                   Trace(generate_response_with_context(query_text[t], client, pick))]
    /\ pc' = [pc EXCEPT ![t] = "add_check"]
    /\ UNCHANGED <<context, query_text, reply, served, keeper, harness>>

\* conversation_context.add_interaction: `if len(self.history) >=
\* self.max_history`.
AddCheck(t) ==
    /\ pc[t] = "add_check"
    /\ pc' = [pc EXCEPT ![t] =
                 IF AtCapacity(history, max_history) THEN "add_pop" ELSE "add_append"]
    /\ UNCHANGED <<context, query_text, response_text, gen, reply, served,
                   keeper, harness>>

\* self.history.pop(0). An IndexError leaves add_interaction and is caught
\* by the except clause of query().
AddPop(t) ==
    /\ pc[t] = "add_pop"
    /\ IF PopRaises(history)
       THEN /\ Finish(t, QueryError("IndexError: pop from empty list"))
            /\ UNCHANGED history
       ELSE /\ history' = PopOldest(history)
            /\ pc' = [pc EXCEPT ![t] = "add_append"]
            /\ UNCHANGED reply
    /\ UNCHANGED <<max_history, current_topic, difficulty_level, query_text,
                   response_text, gen, served, keeper, harness>>

\* self.history.append(...), then query() builds its reply.
AddAppend(t) ==
    /\ pc[t] = "add_append"
    /\ history' = AppendInteraction(history, query_text[t], response_text[t])
    /\ Finish(t, QueryOk(response_text[t]))
    /\ UNCHANGED <<max_history, current_topic, difficulty_level, query_text,
                   response_text, gen, served, keeper, harness>>

\* The reply is sent and the thread is free for the next request.
Respond(t) ==
    /\ pc[t] = "reply"
    /\ pc' = [pc EXCEPT ![t] = "idle"]
    /\ query_text' = [query_text EXCEPT ![t] = NoText]
    /\ response_text' = [response_text EXCEPT ![t] = NoResponse]
    /\ gen' = [gen EXCEPT ![t] = NoGen]
    /\ reply' = [reply EXCEPT ![t] = NoReply]
    /\ UNCHANGED <<context, served, keeper, harness>>

Next ==
    \/ \E t \in Threads : Home(t)
    \/ \E t \in Threads, ok \in BOOLEAN : GenerateResponse(t, ok)
    \/ \E t \in Threads, body \in RequestBodies : QueryReceive(t, body)
    \/ \E t \in Threads, client \in ClientBehaviours : ModelReturns(t, client)
    \/ \E t \in Threads, client \in ClientBehaviours, pick \in Draws :
           ModelFails(t, client, pick)
    \/ \E t \in Threads : AddCheck(t)
    \/ \E t \in Threads : AddPop(t)
    \/ \E t \in Threads : AddAppend(t)
    \/ \E t \in Threads : Respond(t)

Spec == Init /\ [][Next]_vars

\* ------------------------------------------------------------------------
\* keep_alive, the self-ping thread. The model has no clock: the timeout of
\* requests.get and the three time.sleep calls are steps that end.
\* ------------------------------------------------------------------------

urls ==
    <<"https://hecker-ai.onrender.com",
      "https://academic-ai-2-0.onrender.com",
      "https://academic-ai-backup.onrender.com">>

\* requests.get(url, timeout=10) returns a response.
PingReturns ==
    /\ kpc = "get"
    /\ kpc' = "print_status"
    /\ UNCHANGED <<kurl, context, workers, harness>>

\* requests.get raises requests.RequestException: the inner except clause.
PingNetworkError ==
    /\ kpc = "get"
    /\ kpc' = "print_error"
    /\ UNCHANGED <<kurl, context, workers, harness>>

\* requests.get raises any other Exception: the inner except clause does not
\* catch it, the for loop is left and the outer except clause runs.
PingOtherError ==
    /\ kpc = "get"
    /\ kpc' = "print_critical"
    /\ UNCHANGED <<kurl, context, workers, harness>>

\* print(f"Self-ping status ...") or print(f"Self-ping error ..."), then the
\* loop body goes on to time.sleep(2).
PrintPing ==
    /\ kpc \in {"print_status", "print_error"}
    /\ kpc' = "sleep_ping"
    /\ UNCHANGED <<kurl, context, workers, harness>>

\* time.sleep(2) ends: the next URL, or time.sleep(300) after the last one.
NextUrl ==
    /\ kpc = "sleep_ping"
    /\ IF kurl < Len(urls)
       THEN kurl' = kurl + 1 /\ kpc' = "get"
       ELSE kurl' = kurl /\ kpc' = "sleep_cycle"
    /\ UNCHANGED <<context, workers, harness>>

\* time.sleep(300) ends: `while True` starts the next cycle.
NextCycle ==
    /\ kpc = "sleep_cycle"
    /\ kpc' = "get"
    /\ kurl' = 1
    /\ UNCHANGED <<context, workers, harness>>

\* print(f"Critical self-ping error: {e}"), then time.sleep(60).
PrintCritical ==
    /\ kpc = "print_critical"
    /\ kpc' = "sleep_retry"
    /\ UNCHANGED <<kurl, context, workers, harness>>

\* A variant of the outer except clause that leaves the `while True` loop.
RetryStops ==
    /\ kpc = "sleep_retry"
    /\ kpc' = "stopped"
    /\ UNCHANGED <<kurl, context, workers, harness>>

\* time.sleep(60) ends: `while True` starts a new cycle.
Retry ==
    /\ kpc = "sleep_retry"
    /\ kpc' = "get"
    /\ kurl' = 1
    /\ UNCHANGED <<context, workers, harness>>

keep_alive ==
    \/ PingReturns
    \/ PingNetworkError
    \/ PingOtherError
    \/ PrintPing
    \/ NextUrl
    \/ NextCycle
    \/ PrintCritical
    \/ Retry

\* The keep_alive thread beside the two endpoints that touch no
\* conversation state.
LiveNext ==
    \/ keep_alive
    \/ \E t \in Threads : Home(t)
    \/ \E t \in Threads, ok \in BOOLEAN : GenerateResponse(t, ok)
    \/ \E t \in Threads : Respond(t)

\* The thread is a daemon thread of a running process: the scheduler lets it
\* take its next step.
LiveSpec == Init /\ [][LiveNext]_vars /\ WF_vars(keep_alive)

\* ------------------------------------------------------------------------
\* One request to /api/query at a time: query() from its first line to its
\* return, with every query, every behaviour of the model client and every
\* draw of random.choice.
\* ------------------------------------------------------------------------

\* The number of requests served one at a time.
MaxSerial == 2

\* query(): the reply, what generate_response_with_context did, and the
\* history afterwards.
query(hist, max, body, client, pick) ==
    IF body.kind = "not_object"
    THEN [reply |-> QueryError("AttributeError: no attribute 'get'"),
          gen |-> NoGen, history |-> hist]
    ELSE IF body.kind = "number"
    THEN [reply |-> QueryError("AttributeError: no attribute 'lower'"),
          gen |-> NoGen, history |-> hist]
    ELSE LET r == generate_response_with_context(body.query, client, pick)
         IN  IF AtCapacity(hist, max) /\ PopRaises(hist)
             THEN [reply |-> QueryError("IndexError: pop from empty list"),
                   gen |-> Trace(r), history |-> hist]
             ELSE [reply |-> QueryOk(r.text), gen |-> Trace(r),
                   history |-> add_interaction(hist, max, body.query, r.text)]

SerialQuery(body, client, pick) ==
    /\ call.n < MaxSerial
    /\ LET r == query(history, max_history, body, client, pick)
       IN  /\ history' = r.history
           /\ call' = [op |-> "query", n |-> call.n + 1,
                       arg |-> [body |-> body, client |-> client],
                       ret |-> [reply |-> r.reply, gen |-> r.gen]]
    /\ UNCHANGED <<max_history, current_topic, difficulty_level, workers, keeper, calls>>

SerialNext ==
    \E body \in Bodies(AllQueries), client \in Behaviours(AllTexts),
       pick \in 1..Len(emojis) : SerialQuery(body, client, pick)

SpecSerial == Init /\ [][SerialNext]_vars

\* ------------------------------------------------------------------------
\* The methods of a ConversationContext called one after the other on an
\* object built with max_history = N.
\* ------------------------------------------------------------------------

\* The largest max_history.
MaxN == 3

\* The number of calls made on one object.
MaxCalls == MaxN + 1

\* The queries given to detect_topic and adjust_difficulty.
TestQueries ==
    {<<"I", " ", "n", "e", "e", "d", " ", "h", "e", "l", "p", " ", "w", "i", "t", "h", " ", "c", "a", "l", "c", "u", "l", "u", "s">>,
     <<"g", "o", "o", "d", " ", "m", "o", "r", "n", "i", "n", "g">>,
     <<"e", "x", "p", "l", "a", "i", "n", " ", "w", "h", "a", "t", " ", "i", "s", " ", "g", "r", "a", "v", "i", "t", "y">>,
     <<"p", "r", "o", "v", "e", " ", "t", "h", "e", " ", "d", "e", "r", "i", "v", "a", "t", "i", "o", "n">>,
     <<"E", "x", "p", "l", "a", "i", "n", " ", "t", "h", "e", " ", "p", "h", "y", "s", "i", "c", "s", " ", "o", "f", " ", "m", "a", "t", "h">>,
     <<"a", " ", "s", "i", "m", "p", "l", "e", " ", "p", "r", "o", "o", "f", ":", " ", "P", "R", "O", "V", "E", " ", "i", "t">>,
     <<"E", "n", "g", "l", "i", "s", "h", " ", "l", "i", "t", "e", "r", "a", "t", "u", "r", "e">>,
     <<"t", "h", "e", " ", "m", "o", "d", "e", "r", "n", " ", "e", "r", "a", " ", "o", "f", " ", "c", "o", "d", "i", "n", "g">>}

\* The interactions given to add_interaction.
TestInteractions ==
    {[user_query |-> <<"q", "1">>, ai_response |-> <<"r", "1">>],
     [user_query |-> <<"q", "2">>, ai_response |-> <<"r", "2">>]}

InitContext ==
    /\ \E N \in 1..MaxN : ContextInit(N)
    /\ WorkersInit
    /\ KeeperInit
    /\ HarnessInit

CallAddInteraction(x) ==
    /\ call.n < MaxCalls
    /\ history' = add_interaction(history, max_history, x.user_query, x.ai_response)
    /\ calls' = Append(calls, x)
    /\ call' = [op |-> "add_interaction", n |-> call.n + 1, arg |-> x, ret |-> None]
    /\ UNCHANGED <<max_history, current_topic, difficulty_level, workers, keeper>>

CallDetectTopic(q) ==
    /\ call.n < MaxCalls
    /\ LET r == detect_topic(current_topic, q)
       IN  /\ current_topic' = r.current_topic
           /\ call' = [op |-> "detect_topic", n |-> call.n + 1, arg |-> q, ret |-> r.ret]
    /\ UNCHANGED <<history, max_history, difficulty_level, workers, keeper, calls>>

CallAdjustDifficulty(q) ==
    /\ call.n < MaxCalls
    /\ difficulty_level' = adjust_difficulty(difficulty_level, q)
    /\ call' = [op |-> "adjust_difficulty", n |-> call.n + 1, arg |-> q, ret |-> None]
    /\ UNCHANGED <<history, max_history, current_topic, workers, keeper, calls>>

ContextNext ==
    \/ \E x \in TestInteractions : CallAddInteraction(x)
    \/ \E q \in TestQueries : CallDetectTopic(q)
    \/ \E q \in TestQueries : CallAdjustDifficulty(q)

SpecContext == InitContext /\ [][ContextNext]_vars

\* ------------------------------------------------------------------------
\* sanitize_response called on one text.
\* ------------------------------------------------------------------------

\* The longest text over TextAlphabet.
MaxTextLen == 3

TextAlphabet == {"&", "<", ">", "\"", "'", ";", "$", NL, "a"}

\* Longer texts: markers at line starts, dollar-delimited spans, runs of line
\* breaks, entities already in the text.
TextSamples ==
    {<<"S", "t", "e", "p", " ", "1", ":", " ", "a", "<", "b", NL, "C", "o", "n", "c", "l", "u", "s", "i", "o", "n", ":", " ", "'", "x", "'">>,
     <<"$", "$", "a", " ", "&", " ", "b", "$", "$", " ", "$", "c", "$">>,
     <<"a", NL, NL, NL, NL, "<", "b", ">", NL>>,
     <<"&", "l", "t", ";", "&", "a", "m", "p", ";", "&", "#", "0", "3", "9", ";">>,
     <<" ", " ", "<", "a", " ", "h", "r", "e", "f", "=", "\"", "x", "\"", ">", " ", " ">>}

TextInputs ==
    UNION {[1..n -> TextAlphabet] : n \in 0..MaxTextLen} \cup TextSamples

InitText ==
    /\ ContextInit(DefaultMaxHistory)
    /\ WorkersInit
    /\ KeeperInit
    /\ calls = <<>>
    /\ \E text \in TextInputs : call = [op |-> "none", n |-> 0, arg |-> text, ret |-> None]

CallSanitize ==
    /\ call.op = "none"
    /\ call' = [op |-> "sanitize_response", n |-> 1, arg |-> call.arg,
                ret |-> sanitize_response(call.arg)]
    /\ UNCHANGED <<context, workers, keeper, calls>>

SpecText == InitText /\ [][CallSanitize]_vars

\* ========================================================================
\* Properties
\* ========================================================================

\* ------------------------------------------------------------------------
\* sanitize_response (SpecText)
\* ------------------------------------------------------------------------

\* The five entities.
Entities ==
    {<<"&", "a", "m", "p", ";">>, <<"&", "l", "t", ";">>, <<"&", "g", "t", ";">>,
     <<"&", "q", "u", "o", "t", ";">>, <<"&", "#", "0", "3", "9", ";">>}

\* What one character becomes when it is escaped.
EscapeChar(c) ==
    CASE c = "&"  -> <<"&", "a", "m", "p", ";">>
      [] c = "<"  -> <<"&", "l", "t", ";">>
      [] c = ">"  -> <<"&", "g", "t", ";">>
      [] c = "\"" -> <<"&", "q", "u", "o", "t", ";">>
      [] c = "'"  -> <<"&", "#", "0", "3", "9", ";">>
      [] OTHER    -> <<c>>

\* The escape of a text in one pass, character by character.
RECURSIVE EscapeOnce(_)
EscapeOnce(s) ==
    IF s = <<>> THEN <<>> ELSE EscapeChar(Head(s)) \o EscapeOnce(Tail(s))

\* C1: for every input text the output of sanitize_response holds no literal
\* < > " or ', every & of the output is the first character of one of the
\* five entities, and the output is the one-pass character-by-character
\* escape of the structurally cleaned text: every significant character is
\* escaped exactly once and no entity is escaped again.
C1_EscapedOnce ==
    call.op = "sanitize_response" =>
        /\ \A k \in 1..Len(call.ret) : call.ret[k] \notin {"<", ">", "\"", "'"}
        /\ \A k \in 1..Len(call.ret) :
               call.ret[k] = "&" => \E e \in Entities : StartsAt(call.ret, k, e)
        /\ call.ret = EscapeOnce(StructuralCleanup(call.arg))

\* C1 case: a text with an ampersand, an angle bracket and a quote has been
\* sanitized, each of them escaped once.
C1_Witness ==
    /\ call.op = "sanitize_response"
    /\ call.arg = <<"&", "<", "'">>
    /\ call.ret =
        <<"&", "a", "m", "p", ";", "&", "l", "t", ";", "&", "#", "0", "3", "9",
      ";">>

\* ------------------------------------------------------------------------
\* ConversationContext called method by method (SpecContext)
\* ------------------------------------------------------------------------

Min(a, b) == IF a <= b THEN a ELSE b

\* The history is the last min(k, N) pairs given to add_interaction, in call
\* order, k being the number of calls and N max_history.
C4_LastPairs ==
    LET k == Len(calls)
        kept == Min(k, max_history)
    IN  /\ Len(history) = kept
        /\ \A j \in 1..kept : history[j] = calls[k - kept + j]

\* A step taken while the length is below N removes nothing.
C4_NoEarlyRemoval ==
    Len(history) < max_history =>
        /\ Len(history') >= Len(history)
        /\ \A j \in 1..Len(history) : history'[j] = history[j]

\* C4: FIFO eviction. From an empty context with max_history = N >= 1, after
\* k add_interaction calls made one after the other the history is exactly
\* the last min(k, N) pairs in call order (so N+1 calls leave N entries, the
\* first-added one gone), and nothing is removed while the length is below N.
C4_Fifo == []C4_LastPairs /\ [][C4_NoEarlyRemoval]_vars

\* C4 case: N+1 calls with max_history = N = 2, the first pair unlike the
\* second; two entries are left and the oldest of them is the second pair.
C4_Witness ==
    /\ max_history = 2
    /\ Len(calls) = 3
    /\ calls[1] # calls[2]
    /\ Len(history) = 2
    /\ history[1] = calls[2]
    /\ history[2] = calls[3]

\* The words listed under a name in one of the two tables.
WordsOf(table, name) ==
    table[CHOOSE k \in 1..Len(table) : table[k].name = name].words

\* Some word of the list is a substring of the lower-cased query.
Occurs(words, q) ==
    LET lowered == Lower(q)
    IN  \E k \in 1..Len(words) : Contains(lowered, words[k])

QGravity ==
    <<"e", "x", "p", "l", "a", "i", "n", " ", "w", "h", "a", "t", " ", "i",
      "s", " ", "g", "r", "a", "v", "i", "t", "y">>

QProve ==
    <<"p", "r", "o", "v", "e", " ", "t", "h", "e", " ", "d", "e", "r", "i",
      "v", "a", "t", "i", "o", "n">>

QBoth ==
    <<"a", " ", "s", "i", "m", "p", "l", "e", " ", "p", "r", "o", "o", "f",
      ":", " ", "P", "R", "O", "V", "E", " ", "i", "t">>

\* The step is a call of the method named op.
Called(op) == call'.n = call.n + 1 /\ call'.op = op

C7_Step ==
    Called("adjust_difficulty") =>
        LET q == call'.arg
        IN  /\ difficulty_level' =
                   IF Occurs(WordsOf(complexity_indicators, "advanced"), q)
                   THEN "advanced"
                   ELSE IF Occurs(WordsOf(complexity_indicators, "beginner"), q)
                   THEN "beginner"
                   ELSE difficulty_level
            /\ q = QGravity => difficulty_level' = "beginner"
            /\ q = QProve => difficulty_level' = "advanced"
            /\ UNCHANGED <<history, current_topic>>

\* C7: adjust_difficulty tries the advanced indicators before the beginner
\* ones on the lower-cased query: advanced if an advanced indicator occurs
\* (even beside a beginner one), else beginner if a beginner indicator
\* occurs, else the level it had; `explain what is gravity` gives beginner,
\* `prove the derivation` advanced; history and current_topic stay.
C7_AdvancedFirst == [][C7_Step]_vars

\* C7 case: adjust_difficulty has been called with a query that holds a
\* beginner indicator (simple) and an advanced one (PROVE, in capitals).
C7_Witness ==
    /\ call.op = "adjust_difficulty"
    /\ call.arg = QBoth
    /\ difficulty_level = "advanced"

\* The topics in their fixed order.
TopicOrder == <<"mathematics", "science", "language", "history", "technology">>

\* The first topic of TopicOrder with a keyword in the query, None if there
\* is none.
FirstTopic(q) ==
    LET hits == {k \in 1..Len(TopicOrder) : Occurs(WordsOf(topics, TopicOrder[k]), q)}
    IN  IF hits = {} THEN None
        ELSE TopicOrder[CHOOSE k \in hits : \A j \in hits : k <= j]

QCalculus ==
    <<"I", " ", "n", "e", "e", "d", " ", "h", "e", "l", "p", " ", "w", "i",
      "t", "h", " ", "c", "a", "l", "c", "u", "l", "u", "s">>

QMorning ==
    <<"g", "o", "o", "d", " ", "m", "o", "r", "n", "i", "n", "g">>

QPhysicsMath ==
    <<"E", "x", "p", "l", "a", "i", "n", " ", "t", "h", "e", " ", "p", "h",
      "y", "s", "i", "c", "s", " ", "o", "f", " ", "m", "a", "t", "h">>

C8_Step ==
    Called("detect_topic") =>
        LET q == call'.arg
            found == FirstTopic(q)
        IN  /\ call'.ret = found
            /\ current_topic' = IF found = None THEN current_topic ELSE found
            /\ q = QCalculus => call'.ret = "mathematics"
            /\ q = QMorning => call'.ret = None
            /\ q = QPhysicsMath => call'.ret = "mathematics"
            /\ UNCHANGED <<history, difficulty_level>>

\* C8: detect_topic returns the first topic, in the order mathematics,
\* science, language, history, technology, with a keyword that is a
\* case-insensitive substring of the query, and sets current_topic to it;
\* with no keyword of any topic in the query it returns None and
\* current_topic keeps its value; history and difficulty_level stay.
C8_FirstTopic == [][C8_Step]_vars

\* C8 case: after a call that set current_topic to mathematics, a call with
\* a query that holds no keyword has returned None and left current_topic as
\* it was.
C8_Witness ==
    /\ call.op = "detect_topic"
    /\ call.arg = QMorning
    /\ call.ret = None
    /\ current_topic = "mathematics"

\* ------------------------------------------------------------------------
\* /api/query, one request at a time (SpecSerial)
\* ------------------------------------------------------------------------

\* The last request was a query that /api/query answered with success.
Answered ==
    /\ call.op = "query"
    /\ call.ret.reply.status = 200
    /\ call.ret.reply.success = TRUE

\* The transformations applied to the text of the last reply, first to last.
ReplyStages == call.ret.reply.response.stages

\* C2, as stated: on every path (canned, model, fallback) sanitize_response
\* is the last transformation applied to the text /api/query returns, and on
\* the model path format_mathematical_notation runs first.
C2_SanitizedOnEveryPath ==
    Answered =>
        /\ ReplyStages # <<>>
        /\ ReplyStages[Len(ReplyStages)] = "sanitize_response"
        /\ call.ret.gen.path = "model" =>
               ReplyStages = <<"format_mathematical_notation", "sanitize_response">>

\* C2, amended: on the model path format_mathematical_notation runs first
\* and sanitize_response second and last, on the text the model returned; on
\* the canned path format_mathematical_notation alone is applied to the
\* passage; on the fallback path the apology is returned as it was built.
C2_SanitizedOnModelPath ==
    Answered =>
        /\ call.ret.gen.path \in {"canned", "model", "fallback"}
        /\ call.ret.gen.path = "model" =>
               /\ ReplyStages = <<"format_mathematical_notation", "sanitize_response">>
               /\ call.ret.reply.response.raw = call.arg.client.text
        /\ call.ret.gen.path = "canned" =>
               ReplyStages = <<"format_mathematical_notation">>
        /\ call.ret.gen.path = "fallback" => ReplyStages = <<>>

\* C2 case: the model returned a<b and the reply holds the bracket escaped,
\* inside the escaped markup of the formatter.
C2_Witness ==
    /\ Answered
    /\ call.ret.gen.path = "model"
    /\ call.arg.client.text = <<"a", "<", "b">>
    /\ Contains(Text(call.ret.reply.response), <<"&", "l", "t", ";", "b">>)
    /\ ~Contains(Text(call.ret.reply.response), <<"<">>)

\* The model client was called for the last request and failed.
ClientFailed ==
    /\ call.op = "query"
    /\ call.arg.body.kind = "query"
    /\ call.ret.gen.model_calls > 0
    /\ call.arg.client.kind \in {"raises", "text_raises"}

\* C5: when the model client fails (generate_content raises, or reading
\* .text raises) generate_response_with_context does not raise: after one
\* call of the client it returns the apology followed by exactly one emoji
\* of the list, and /api/query answers 200 with success = true.
C5_Apology ==
    ClientFailed =>
        /\ call.ret.gen.model_calls = 1
        /\ call.ret.reply.status = 200
        /\ call.ret.reply.success = TRUE
        /\ \E k \in 1..Len(emojis) :
               Text(call.ret.reply.response) = Apology \o <<emojis[k]>>
        /\ history # <<>>
        /\ history[Len(history)].ai_response = call.ret.reply.response

\* C5 case: reading .text raised, and the reply is the apology with the last
\* emoji of the list.
C5_Witness ==
    /\ ClientFailed
    /\ call.arg.client.kind = "text_raises"
    /\ Text(call.ret.reply.response) = Apology \o <<"U+1F31E">>

\* The queries of AllQueries that hold a trigger word, whatever the case.
TriggerQueries ==
    {
        <<"p", "r", "o", "v", "e", " ", "t", "h", "e", " ", "d", "e", "r", "i",
          "v", "a", "t", "i", "o", "n">>,
        <<"W", "h", "a", "t", " ", "i", "s", " ", "V", "I", "S", "C", "O", "S",
          "I", "T", "Y", "?">>,
        <<"3", "-", "d", "i", "m", "e", "n", "s", "i", "o", "n", "a", "l", " ",
          "<", "b", ">">>,
        <<"i", "m", "p", "r", "o", "v", "e">>,
        <<"P", "R", "O", "V", "E", " ", "i", "t">>}

\* C6: every query that holds a trigger word (dimension, dimensional
\* analysis, viscosity, prove, derivation; any case) gets the same text, the
\* passage with format_mathematical_notation alone applied to it, whatever
\* the trigger, the rest of the query, the history and the behaviour of the
\* model client, which is not called.
C6_SamePassage ==
    (/\ call.op = "query"
     /\ call.arg.body.kind = "query"
     /\ call.arg.body.query \in TriggerQueries) =>
        /\ Answered
        /\ call.ret.reply.response =
               [stages |-> <<"format_mathematical_notation">>, raw |-> CannedPassage]
        /\ call.ret.gen.model_calls = 0
        /\ history[Len(history)].ai_response = call.ret.reply.response

\* C6 case: two queries with different triggers, one in capitals, asked one
\* after the other while the model client fails, have the same text in the
\* history.
C6_Witness ==
    /\ call.op = "query"
    /\ call.arg.client.kind = "raises"
    /\ Len(history) = 2
    /\ history[1].user_query =
        <<"W", "h", "a", "t", " ", "i", "s", " ", "V", "I", "S", "C", "O", "S",
          "I", "T", "Y", "?">>
    /\ history[2].user_query =
        <<"i", "m", "p", "r", "o", "v", "e">>
    /\ history[1].ai_response = history[2].ai_response
    /\ history[2].ai_response.raw = CannedPassage

\* ------------------------------------------------------------------------
\* The server with concurrent requests (Spec)
\* ------------------------------------------------------------------------

\* C3, as stated: the history never holds more than max_history entries in
\* any reachable state of conversation_context, also when /api/query
\* requests run at the same time and the steps of their add_interaction
\* calls (length check, removal of the oldest entry, append) interleave, and
\* no interleaving makes add_interaction fail.
C3_Bounded ==
    /\ Len(history) <= max_history
    /\ \A t \in Threads : pc[t] = "add_pop" => ~PopRaises(history)

\* Thread t takes a step of its handler.
Steps(t) == pc'[t] # pc[t]

\* The pair add_interaction stores for thread t.
PairOf(t) == [user_query |-> query_text[t], ai_response |-> response_text[t]]

\* Thread t ends a request with the reply r'[t].
Replying(t) == pc[t] # "reply" /\ pc'[t] = "reply"

C10_Step ==
    \* the context changes only in the pop and the append of an
    \* add_interaction call made by query(), and no stored pair is altered
    /\ context' # context =>
           /\ UNCHANGED <<max_history, current_topic, difficulty_level>>
           /\ \E t \in Threads :
                  /\ Steps(t)
                  /\ \/ /\ pc[t] = "add_pop"
                        /\ history # <<>>
                        /\ history' = Tail(history)
                        /\ pc'[t] = "add_append"
                     \/ /\ pc[t] = "add_append"
                        /\ history' = Append(history, PairOf(t))
    \* a request that returns success has appended exactly one pair, the
    \* query and the text returned
    /\ \A t \in Threads :
           (Replying(t) /\ reply'[t].endpoint = "/api/query" /\ reply'[t].status = 200) =>
               /\ reply'[t].success = TRUE
               /\ reply'[t].response = response_text[t]
               /\ history' = Append(history, PairOf(t))
    \* a thread that has removed the oldest entry goes on to append
    /\ \A t \in Threads :
           (Steps(t) /\ pc[t] = "add_append") =>
               (pc'[t] = "reply" /\ reply'[t].status = 200)
    \* the other endpoints and a request that ends in 500 change nothing
    /\ \A t \in Threads :
           (Replying(t) /\ (reply'[t].endpoint # "/api/query" \/ reply'[t].status = 500)) =>
               UNCHANGED context
    \* a request that ends in 500 has changed nothing before either
    /\ \A t \in Threads :
           (Steps(t) /\ pc[t] \in {"idle", "model", "add_check"}) => UNCHANGED context

\* C10: over any sequence of requests to the three endpoints the context
\* changes only through the add_interaction call of /api/query, which
\* appends exactly one (query, returned text) pair per request that returns
\* success and alters no stored pair; current_topic stays None and
\* difficulty_level 'intermediate' in every reachable state; / and
\* /generate_response and an /api/query request that ends in 500 leave the
\* context unchanged.
C10_Frame ==
    /\ [](current_topic = None /\ difficulty_level = "intermediate"
              /\ max_history = DefaultMaxHistory)
    /\ [][C10_Step]_vars

\* C10 case: requests to all three endpoints have been served; a query has
\* just been answered with success while the other thread holds a 500 reply,
\* and the last pair of the history is the query and the text returned.
C10_Witness ==
    /\ \E t \in Threads :
           /\ pc[t] = "reply"
           /\ reply[t].endpoint = "/api/query"
           /\ reply[t].status = 200
           /\ Len(history) >= 2
           /\ history[Len(history)] = [user_query |-> query_text[t],
                                       ai_response |-> reply[t].response]
    /\ \E t \in Threads : pc[t] = "reply" /\ reply[t].status = 500
    /\ current_topic = None

\* ------------------------------------------------------------------------
\* keep_alive (LiveSpec)
\* ------------------------------------------------------------------------

\* requests.get has been called on urls[u] and has returned or raised.
Pinged(u) == kurl = u /\ kpc \in {"print_status", "print_error", "print_critical"}

C9_Running ==
    /\ kpc \in {"get", "print_status", "print_error", "print_critical",
                "sleep_ping", "sleep_cycle", "sleep_retry"}
    /\ kurl \in 1..Len(urls)
    /\ ENABLED keep_alive

C9_Step ==
    keeper' # keeper =>
        \* a network error is caught: the same cycle goes on with the next URL
        /\ kpc = "print_error" => (kpc' = "sleep_ping" /\ kurl' = kurl)
        /\ (kpc = "sleep_ping" /\ kurl < Len(urls)) => (kpc' = "get" /\ kurl' = kurl + 1)
        \* any other exception ends the cycle; a new one starts after the delay
        /\ kpc = "print_critical" => kpc' = "sleep_retry"
        /\ kpc = "sleep_retry" => (kpc' = "get" /\ kurl' = 1)
        \* the loop touches no state of the request handlers
        /\ UNCHANGED <<context, workers>>

====
